---- MODULE Spec2Model ----
(***************************************************************************)
(* Savant: the voice bridge (backend/voice_bridge_client.py), the          *)
(* conversation manager (backend/conversation_manager.py) and the two UI   *)
(* handlers that start and stop the bridge (frontend/app.py).              *)
(*                                                                         *)
(* Threads and loops.  Every start_call that passes its guard spawns one   *)
(* thread running connect_and_stream in an event loop of its own; the      *)
(* thread, its loop and the Room it creates share one identifier.  Inside  *)
(* one loop, code runs atomically between awaits, so one action is one     *)
(* stretch of code between two suspension points.  The UI handlers run on  *)
(* the Streamlit script threads; one handler is one action.                *)
(***************************************************************************)
EXTENDS Integers, Sequences, FiniteSets, TLC

\* Bounds of the model.
MaxSup == 2        \* connect_and_stream threads ever spawned
MaxTurns == 2      \* callback tasks ever created by the bridge
MaxAudio == 2      \* audio-stream consumer tasks ever created
MaxSessions == 1   \* browser sessions sharing the cached manager
MaxCalls == 2      \* direct process_input calls (SpecTurn)

SupIds == 1..MaxSup
Sessions == 1..MaxSessions
NoRoom == 0        \* self.room is None; also the loop id of a direct caller
None == "None"

\* A data file that has not been written, and one holding a list of protocols.
NoFile == [written |-> FALSE, protocols |-> <<>>]
File(protocols) == [written |-> TRUE, protocols |-> protocols]

VARIABLES
    api_key,            \* VoiceBridgeClient.api_key is set (VOCAL_BRIDGE_KEY)
    active,             \* bridge.active (absent attribute reads as False)
    call_active,        \* st.session_state.call_active, per browser session
    room,               \* VoiceBridgeClient.room: NoRoom or a Room id
    source,             \* VoiceBridgeClient.source
    track,              \* VoiceBridgeClient.track
    audio_stream_task,  \* VoiceBridgeClient._audio_stream_task: 0 or index in audio
    sup,                \* the connect_and_stream threads
    rooms,              \* the rtc.Room objects: connection state
    audio,              \* the _audio_play_loop tasks ever created
    tasks,              \* the _safe_callback_run tasks / process_input calls
    history,            \* ConversationManager.history
    patient_db,         \* DatabaseManager.patient_db records
    published,          \* payloads accepted by publish_data
    inbox,              \* room events handed to the handlers one by one (SpecRouter)
    active_protocol,    \* ConversationManager.active_protocol
    current_step_id,    \* ConversationManager.current_step_id
    conversation_active, \* ConversationManager.conversation_active
    savant_protocols,   \* data/savant_protocols.json
    savant_metadata     \* data/savant_metadata.pkl

vars == <<api_key, active, call_active, room, source, track, audio_stream_task,
          sup, rooms, audio, tasks, history, patient_db, published, inbox,
          active_protocol, current_step_id, conversation_active,
          savant_protocols, savant_metadata>>

\* The protocol-session fields of the ConversationManager.
sessionVars == <<active_protocol, current_step_id, conversation_active>>

pipelineVars == <<savant_protocols, savant_metadata>>

bridgeVars == <<api_key, active, call_active, room, source, track,
                audio_stream_task, sup, rooms, audio>>

----------------------------------------------------------------------------
\* Inbound data: what a DataPacket or a transcription event carries.

TranscriptionTopic == "lk.transcription"

\* str.strip() leaves nothing.
IsBlank(text) == text \in {"", " ", "  "}

\* The packets the room delivers in this model.  identity is the identity of
\* the participant that sent the packet (DataPacket.participant).
Packets == { [topic |-> TranscriptionTopic, form |-> "raw", text |-> "help",
              identity |-> "user-1"],
             [topic |-> "chat", form |-> "raw", text |-> "  ",
              identity |-> "user-1"] }

\* The payload of a packet, by its form: plain text, a JSON object with a
\* string text field, the same after a leading space, a JSON object whose
\* text field is a number, a JSON object cut short, a JSON object without
\* the word text, and bytes that are not UTF-8.

\* data.data.decode('utf-8') of a packet; None when decode raises.
RawText(pkt) ==
    CASE pkt.form = "json_text"   -> "{\"text\": \"" \o pkt.text \o "\"}"
      [] pkt.form = "json_padded" -> " {\"text\": \"" \o pkt.text \o "\"}"
      [] pkt.form = "json_nonstr" -> "{\"text\": " \o pkt.text \o "}"
      [] pkt.form = "json_bad"    -> "{\"text\": \"" \o pkt.text
      [] pkt.form = "json_other"  -> "{\"msg\": \"" \o pkt.text \o "\"}"
      [] pkt.form = "undecodable" -> None
      [] OTHER                    -> pkt.text

\* The test of line 60: the decoded text starts with a brace and contains the
\* word text.
LooksLikeJson(pkt) == pkt.form \in {"json_text", "json_nonstr", "json_bad"}

\* The text the transcription branch hands to _process_text_message (lines
\* 58-65): the text field of the parsed object, the decoded text when the
\* test of line 60 fails.
BranchText(pkt) == IF pkt.form = "json_text" THEN pkt.text ELSE RawText(pkt)

\* The course of the transcription branch (lines 57-68): decode raises on
\* bytes that are not UTF-8, json.loads on the object cut short, text.strip()
\* in _process_text_message on the number; the bare except swallows each.
\* Otherwise the branch returns from the handler at line 66.
TranscriptionBranch(pkt) ==
    IF pkt.form = "undecodable" \/ (LooksLikeJson(pkt) /\ pkt.form # "json_text")
    THEN "raised" ELSE "returned"

\* The handler never returns at line 66: lines 71-72 run for every packet.
FallbackRuns_NoReturn(pkt) == TRUE

\* Lines 71-72 run: the packet is on another topic, or the transcription
\* branch raised.
FallbackRuns(pkt) ==
    pkt.topic # TranscriptionTopic \/ TranscriptionBranch(pkt) = "raised"

\* _on_data_received: the text of the last call of _process_text_message,
\* None when decoding fails on the fallback path too.
DataText(pkt) ==
    IF pkt.form = "undecodable" THEN None
    ELSE IF FallbackRuns(pkt) THEN RawText(pkt)
    ELSE BranchText(pkt)

\* _process_text_message with the test of line 78 reduced to "if text":
\* whitespace passes.
Accepts_NoStrip(text) == text # None /\ text # ""

\* _process_text_message: the callback is scheduled for this text.
Accepts(text) == text # None /\ ~IsBlank(text)

\* The texts _on_data_received schedules the callback for, in order: by the
\* transcription branch when it ran to its end, by lines 71-72 when they run.
Deliveries(pkt) ==
    (IF pkt.topic = TranscriptionTopic /\ TranscriptionBranch(pkt) = "returned"
           /\ Accepts(BranchText(pkt))
     THEN <<BranchText(pkt)>> ELSE <<>>)
    \o (IF FallbackRuns(pkt) /\ Accepts(RawText(pkt)) THEN <<RawText(pkt)>> ELSE <<>>)

\* What _on_data_received does with a packet: a callback task is created,
\* the packet is skipped in silence, or the decode failure is logged as a
\* warning (line 75).  The participant of the packet is not read.
DataOutcome(pkt) ==
    IF DataText(pkt) = None THEN "warned"
    ELSE IF Deliveries(pkt) # <<>> THEN "task"
    ELSE "skipped"

----------------------------------------------------------------------------
Init ==
    /\ api_key \in BOOLEAN
    /\ active = FALSE
    /\ call_active = [u \in Sessions |-> FALSE]
    /\ room = NoRoom
    /\ source = None
    /\ track = None
    /\ audio_stream_task = 0
    /\ sup = [s \in SupIds |-> [pc |-> "unspawned", fetches |-> 0, connects |-> 0,
                                logged |-> {}, result |-> None]]
    /\ rooms = [s \in SupIds |-> "none"]
    /\ audio = <<>>
    /\ tasks = <<>>
    /\ history = <<>>
    /\ patient_db = <<>>
    /\ published = <<>>
    /\ inbox = <<>>
    /\ active_protocol = None
    /\ current_step_id = None
    /\ conversation_active = FALSE
    /\ savant_protocols = NoFile
    /\ savant_metadata = NoFile

----------------------------------------------------------------------------
\* Helpers over the thread table.

\* The event loop of thread l is running: run_until_complete has not returned.
\* Loop 0 is the loop of a direct caller of process_input.
LoopRunning(l) ==
    IF l = NoRoom THEN TRUE ELSE sup[l].pc \in {"spawned", "connecting", "loop", "closing"}

\* Room r dispatches its events: it is connected and its loop is running.
Dispatching(r) == rooms[r] = "connected" /\ sup[r].pc \in {"loop", "closing"}

\* Task.cancel() on self._audio_stream_task (close, lines 202-203).
CancelAudioTask ==
    IF audio_stream_task # 0 /\ audio[audio_stream_task].st = "running"
    THEN [audio EXCEPT ![audio_stream_task].st = "cancelled"]
    ELSE audio

\* close(), entered from the finally clause of connect_and_stream by thread s,
\* up to its first suspension.  rms and sp are the room and thread tables as the
\* code before the finally clause left them.  A room that is connected is
\* disconnected with an await (the thread is suspended in close); otherwise
\* disconnect returns at once and close runs to its end (pc "closed": the
\* thread has still to return from connect_and_stream).
CloseBegin(s, rms, sp) ==
    /\ audio' = CancelAudioTask
    /\ IF room # NoRoom /\ rms[room] = "connected"
       THEN /\ rooms' = [rms EXCEPT ![room] = "disconnected"]
            /\ sup' = [sp EXCEPT ![s].pc = "closing"]
            /\ UNCHANGED <<room, source, track>>
       ELSE /\ rooms' = rms
            /\ room' = NoRoom
            /\ source' = None
            /\ track' = None
            /\ sup' = [sp EXCEPT ![s].pc = "closed"]

\* close() after await self.room.disconnect() (lines 207-211).
CloseFinish(s) ==
    /\ sup[s].pc = "closing"
    /\ room' = NoRoom
    /\ source' = None
    /\ track' = None
    /\ sup' = [sup EXCEPT ![s].pc = "closed"]
    /\ UNCHANGED <<api_key, active, call_active, audio_stream_task, rooms, audio,
                   tasks, history, patient_db, published, inbox, sessionVars, pipelineVars>>

\* close has returned (line 272): connect_and_stream returns None to
\* run_until_complete in the thread of run_livekit (app.py, lines 97-103).
\* The other threads run between the last assignment of close and this return.
SupReturn(s) ==
    /\ sup[s].pc = "closed"
    /\ sup' = [sup EXCEPT ![s].pc = "done", ![s].result = "returned"]
    /\ UNCHANGED <<api_key, active, call_active, room, source, track,
                   audio_stream_task, rooms, audio, tasks, history, patient_db,
                   published, inbox, sessionVars, pipelineVars>>

----------------------------------------------------------------------------
\* frontend/app.py: the button handlers.

\* The guard of start_call (line 93): a thread is spawned.
StartSpawns(act) == ~act

\* start_call, clicked in session u (the button shows while call_active is False).
StartCall(u) ==
    /\ ~call_active[u]
    /\ IF StartSpawns(active)
       THEN /\ \E s \in SupIds :
                 /\ sup[s].pc = "unspawned"
                 /\ \A q \in SupIds : q < s => sup[q].pc # "unspawned"
                 /\ sup' = [sup EXCEPT ![s].pc = "spawned"]
            /\ call_active' = [call_active EXCEPT ![u] = TRUE]
            /\ active' = TRUE
       ELSE UNCHANGED <<sup, call_active, active>>
    /\ UNCHANGED <<api_key, room, source, track, audio_stream_task, rooms, audio,
                   tasks, history, patient_db, published, inbox, sessionVars, pipelineVars>>

\* stop_call, clicked in session u (the button shows while call_active is True).
StopCall(u) ==
    /\ call_active[u]
    /\ call_active' = [call_active EXCEPT ![u] = FALSE]
    /\ active' = FALSE
    /\ UNCHANGED <<api_key, room, source, track, audio_stream_task, sup, rooms,
                   audio, tasks, history, patient_db, published, inbox, sessionVars, pipelineVars>>

\* CLEAR LOGS button.
ClearLogs ==
    /\ history # <<>>
    /\ history' = <<>>
    /\ UNCHANGED <<bridgeVars, tasks, patient_db, published, inbox, sessionVars, pipelineVars>>

----------------------------------------------------------------------------
\* connect_and_stream, thread s.

\* get_token without the key check of lines 29-31: the POST is always sent.
SendsTokenRequest_NoKeyCheck(key) == TRUE

\* get_token sends the POST only when the key is present (lines 29-31).
SendsTokenRequest(key) == key

\* get_token: the logging.error lines of a fetch; ok is the outcome of the POST.
TokenLog(ok) ==
    IF ~api_key THEN {"key_missing"} ELSE IF ok THEN {} ELSE {"token_failed"}

\* Lines 228-257: get_token runs (ok is the outcome of the POST, which is sent
\* only when the key is present).  Without a token the thread returns through
\* close.  With one a Room is created and stored in self.room, its handlers
\* are registered and room.connect is awaited.
SupGetToken(s, ok) ==
    /\ sup[s].pc = "spawned"
    /\ ok => api_key
    /\ LET sp == [sup EXCEPT ![s].fetches = IF SendsTokenRequest(api_key) THEN @ + 1 ELSE @,
                             ![s].logged = @ \cup TokenLog(ok)]
       IN  IF ok
           THEN /\ room' = s
                /\ rooms' = [rooms EXCEPT ![s] = "new"]
                /\ sup' = [sp EXCEPT ![s].pc = "connecting", ![s].connects = @ + 1]
                /\ UNCHANGED <<source, track, audio>>
           ELSE CloseBegin(s, rooms, sp)
    /\ UNCHANGED <<api_key, active, call_active, audio_stream_task, tasks, history,
                   patient_db, published, inbox, sessionVars, pipelineVars>>

\* The keep-alive condition of line 264.
KeepAlive(act, rm, rms) == act /\ rm # NoRoom /\ rms[rm] = "connected"

\* await room.connect returns (lines 257-265).  On an exception (connect fails,
\* or self.room is None at line 258) the error is logged and close runs.
\* Otherwise self.active is set and the loop condition is evaluated.
SupConnectReturns(s, ok) ==
    /\ sup[s].pc = "connecting"
    /\ LET rms == [rooms EXCEPT ![s] = IF ok THEN "connected" ELSE "failed"]
       IN  IF ~ok \/ room = NoRoom
           THEN /\ active' = active
                /\ CloseBegin(s, rms, [sup EXCEPT ![s].logged = @ \cup {"connection_error"}])
           ELSE /\ active' = TRUE
                /\ IF KeepAlive(TRUE, room, rms)
                   THEN /\ rooms' = rms
                        /\ sup' = [sup EXCEPT ![s].pc = "loop"]
                        /\ UNCHANGED <<room, source, track, audio>>
                   ELSE CloseBegin(s, rms, sup)
    /\ UNCHANGED <<api_key, call_active, audio_stream_task, tasks, history,
                   patient_db, published, inbox, sessionVars, pipelineVars>>

\* asyncio.sleep(1) returns and the condition of line 264 is false: the loop is
\* left and close runs.  (While the condition holds the thread sleeps again.)
SupLoopExit(s) ==
    /\ sup[s].pc = "loop"
    /\ ~KeepAlive(active, room, rooms)
    /\ CloseBegin(s, rooms, sup)
    /\ UNCHANGED <<api_key, active, call_active, audio_stream_task, tasks, history,
                   patient_db, published, inbox, sessionVars, pipelineVars>>

----------------------------------------------------------------------------
\* Room events, dispatched on the loop of the room.

\* on_track_subscribed (lines 236-242).
TrackSubscribed(r, kind) ==
    /\ Dispatching(r)
    /\ IF kind = "audio"
       THEN /\ Len(audio) < MaxAudio
            /\ audio' = Append(audio, [loop |-> r, st |-> "running"])
            /\ audio_stream_task' = Len(audio) + 1
       ELSE UNCHANGED <<audio, audio_stream_task>>
    /\ UNCHANGED <<api_key, active, call_active, room, source, track, sup, rooms,
                   tasks, history, patient_db, published, inbox, sessionVars, pipelineVars>>

\* The connection of room r drops; on_disconnected only logs at info level.
Disconnected(r) ==
    /\ rooms[r] = "connected"
    /\ rooms' = [rooms EXCEPT ![r] = "disconnected"]
    /\ UNCHANGED <<api_key, active, call_active, room, source, track,
                   audio_stream_task, sup, audio, tasks, history, patient_db,
                   published, inbox, sessionVars, pipelineVars>>

\* asyncio.create_task(self._safe_callback_run(text)) on loop r (lines 80-81);
\* a direct call of process_input has loop 0.
\* publish is the course publish_context took for the task, vis the outcome
\* of its vision call, tts whether generate_pcm was called for its response,
\* step the value of current_step_id the call found, signal what the call
\* handed back besides its response text.
NewTask(r, text, image) ==
    [loop |-> r, text |-> text, image |-> image, pc |-> "ready", final |-> "",
     via |-> NoRoom, publish |-> None, vis |-> None, tts |-> FALSE,
     step |-> None, signal |-> None]

\* _on_data_received and _process_text_message (lines 52-81), run on loop r.
OnDataReceived(r, pkt) ==
    /\ Dispatching(r)
    /\ Len(tasks) + Len(Deliveries(pkt)) <= MaxTurns
    /\ tasks' = tasks \o [k \in 1..Len(Deliveries(pkt)) |->
                            NewTask(r, Deliveries(pkt)[k], FALSE)]
    /\ UNCHANGED <<bridgeVars, history, patient_db, published, sessionVars, pipelineVars>>

\* The data_received event of room r (lines 248-250).
DataReceived(r, pkt) == OnDataReceived(r, pkt) /\ UNCHANGED <<inbox, sessionVars, pipelineVars>>

\* Identities that contain "agent-".
AgentIdentities == {"agent-7"}

\* " ".join of the segment texts.
RECURSIVE JoinSegments(_)
JoinSegments(segs) ==
    IF segs = <<>> THEN ""
    ELSE IF Len(segs) = 1 THEN segs[1]
    ELSE segs[1] \o " " \o JoinSegments(Tail(segs))

\* The legacy transcription events the room delivers in this model.
Transcriptions == { [identity |-> "agent-7", form |-> "", segs |-> <<"help">>],
                    [identity |-> "user-1", form |-> "", segs |-> <<"help">>] }

\* The join of line 104 raises: a segment of the event has a text that is not
\* a string.
JoinRaises(ev) == ev.form = "bad_segment"

\* Only the first segment is taken.
FullText_FirstSegment(ev) == IF ev.segs = <<>> THEN "" ELSE ev.segs[1]

\* full_text of lines 103-104 for a list of segments.
FullText(ev) == JoinSegments(ev.segs)

\* _on_transcription_received: the event passes the identity filter of lines
\* 97-98 and the strip test of line 109.
TranscriptionAccepts(ev) ==
    /\ ev.identity \notin AgentIdentities
    /\ ~JoinRaises(ev)
    /\ ~IsBlank(FullText(ev))

\* The failure is logged without a warning.
TranscriptionOutcome_Silent(ev) == IF TranscriptionAccepts(ev) THEN "task" ELSE "skipped"

\* What _on_transcription_received does with an event: the agent's events
\* return at line 98, an exception is logged as a warning (line 114).
TranscriptionOutcome(ev) ==
    IF TranscriptionAccepts(ev) THEN "task"
    ELSE IF ev.identity \notin AgentIdentities /\ JoinRaises(ev) THEN "warned"
    ELSE "skipped"

\* _on_transcription_received (lines 93-114), run on loop r.
OnTranscriptionReceived(r, ev) ==
    /\ Dispatching(r)
    /\ IF TranscriptionAccepts(ev)
       THEN /\ Len(tasks) < MaxTurns
            /\ tasks' = Append(tasks, NewTask(r, FullText(ev), FALSE))
       ELSE tasks' = tasks
    /\ UNCHANGED <<bridgeVars, history, patient_db, published, sessionVars, pipelineVars>>

\* The transcription_received event of room r (lines 252-254).
TranscriptionReceived(r, ev) == OnTranscriptionReceived(r, ev) /\ UNCHANGED <<inbox, sessionVars, pipelineVars>>

----------------------------------------------------------------------------
\* ConversationManager.process_input, run by task t.

\* VisionProcessor.analyze_injury: the parsed answer of the model, or the
\* fallback dictionary of the except clause (lines 73-80).
AnalyzeInjury(vis) ==
    IF vis = "ok"
    THEN [injury |-> "Laceration", severity |-> "CRITICAL",
          visual_overlay |-> "Arterial Bleed - Apply Tourniquet"]
    ELSE [injury_type |-> "Unknown", severity |-> "Unknown",
          visual_overlay_text |-> "Analysis Failed - Check Connection"]

\* dict.get(key, default).
Get(d, key, default) == IF key \in DOMAIN d THEN d[key] ELSE default

\* The outcomes of the vision call: an answer, a failed call, or an answer
\* that parses as JSON but is no object (analysis.get then raises).
VisionOutcomes == {"ok", "api_error", "not_object"}
\* TinyDB insert succeeds or raises.
DbOutcomes == {"ok", "raise"}
\* Room.local_participant of a Room that never connected: falsy, or raises.
ParticipantOutcomes == {"falsy", "raises"}

Entry(role, content, t) == [role |-> role, content |-> content, turn |-> t]

\* Lines 56-60 with "if" in the place of "elif": a call with a text and an
\* image appends two user entries.
UserEntry_Both(t) ==
    (IF tasks[t].text # "" THEN <<Entry("user", tasks[t].text, t)>> ELSE <<>>)
        \o (IF tasks[t].image THEN <<Entry("user", "[Image Analysis]", t)>> ELSE <<>>)

\* Lines 56-60.
UserEntry(t) ==
    IF tasks[t].text # "" THEN <<Entry("user", tasks[t].text, t)>>
    ELSE IF tasks[t].image THEN <<Entry("user", "[Image Analysis]", t)>>
    ELSE <<>>

\* _speak_and_return assigning a fresh list instead of appending.
SpeakAndReturn_Overwrite(h, t, text) == <<Entry("assistant", text, t)>>

\* _speak_and_return: the assistant entry is appended (line 31).
SpeakAndReturn(h, t, text) == Append(h, Entry("assistant", text, t))

\* _speak_and_return calls generate_pcm only when self.voice_bridge.source is
\* set (line 33); send_audio is an empty coroutine (line 276).
TtsRequested(src) == src # None

\* What publish_context returns to process_input: the bare return of line 284
\* and the end of the function both give None.
PublishReturn(course) == None

\* Lines 68-70.
VisualContext(vis) ==
    "[Visual Info: Found " \o Get(AnalyzeInjury(vis), "injury", "Unknown")
        \o ", Severity: " \o Get(AnalyzeInjury(vis), "severity", "Unknown") \o "]"

\* The record without the severity.
LogRecord_NoSeverity(vis) ==
    [heart_rate |-> "--",
     injury_detected |-> Get(AnalyzeInjury(vis), "injury", "Unknown"),
     actions_taken |-> "Visual Analysis: "]

\* Lines 74-78 with DatabaseManager.log_patient_state.
LogRecord(vis) ==
    [heart_rate |-> "--",
     injury_detected |-> Get(AnalyzeInjury(vis), "injury", "Unknown"),
     actions_taken |-> "Visual Analysis: " \o Get(AnalyzeInjury(vis), "severity", "Unknown")]

\* Lines 81-83.
FinalInput(t, vis) ==
    tasks[t].text \o (IF tasks[t].image THEN " " \o VisualContext(vis) ELSE "")

Echo(final) == "I heard you say: " \o final

\* _safe_callback_run without its except clause: the exception leaves the task.
RaisedPc_Uncaught(l) == "raised"

\* How a task ends when an exception leaves process_input: _safe_callback_run
\* catches and logs it (lines 83-87); a direct caller (loop 0) receives it.
RaisedPc(l) == IF l = NoRoom THEN "raised" ELSE "failed_logged"

\* process_input leaves with an exception in task t.
Raise(t, tk) == tasks' = [tk EXCEPT ![t].pc = RaisedPc(tasks[t].loop)]

\* log_patient_state lets an exception of insert through (lines 16-24).
DbRaises(dbo) == dbo = "raise"

\* The step tree of the hemorrhage protocol (rag_preparation/data_pipeline.py,
\* get_placeholder_data).  A step without options has none, a step without a
\* next link has None, a step without the visual_mode key is not visual.
HemorrhageTree ==
    [step_1 |->
        [voice |-> "Is blood spurting from the wound?",
         visual_mode |-> FALSE,
         options |-> [yes |-> "step_tourniquet", no |-> "step_pressure"],
         next |-> None],
     step_tourniquet |->
        [voice |-> "Place tourniquet 2 to 3 inches above the wound. Tighten until bleeding stops.",
         visual_mode |-> TRUE,
         options |-> <<>>,
         next |-> "step_check_time"],
     step_check_time |->
        [voice |-> "Note the application time on the tourniquet.",
         visual_mode |-> FALSE,
         options |-> <<>>,
         next |-> None],
     step_pressure |->
        [voice |-> "Apply direct, steady pressure to the bleeding site.",
         visual_mode |-> TRUE,
         options |-> <<>>,
         next |-> None]]

\* The protocols of get_placeholder_data, by id.
PlaceholderTrees == [hemorrhage |-> HemorrhageTree]

\* The step ids a step refers to.
StepTargets(step) ==
    {step.options[k] : k \in DOMAIN step.options}
        \cup (IF step.next = None THEN {} ELSE {step.next})

\* An engine that takes the matching option and then follows the next links
\* to the end of the chain.
RECURSIVE FollowNext(_, _)
FollowNext(tree, id) ==
    IF tree[id].next = None THEN id ELSE FollowNext(tree, tree[id].next)

NextStepId_FollowLinks(protocol, step, text) ==
    IF protocol = None \/ step = None THEN step
    ELSE LET tree == PlaceholderTrees[protocol]
         IN  IF text \in DOMAIN tree[step].options
             THEN FollowNext(tree, tree[step].options[text])
             ELSE FollowNext(tree, step)

\* An engine that enters the first step of the hemorrhage protocol on the
\* first utterance.
NextStepId_EnterFirstStep(protocol, step, text) ==
    IF step = None THEN "step_1" ELSE step

\* The value of current_step_id after a call of process_input: the function
\* reads neither active_protocol nor current_step_id and assigns neither
\* (lines 46-104).
NextStepId(protocol, step, text) == step

\* What process_input hands back besides the response text of line 104:
\* nothing.
TurnSignal(protocol, step, image) == None

\* Task t starts and runs process_input up to its first suspension, the await
\* of publish_data inside publish_context, or to its end.  Tasks of one loop
\* start in the order of their creation.
TurnStart(t, vis, dbo, lp) ==
    /\ t \in 1..Len(tasks)
    /\ tasks[t].pc = "ready"
    /\ LoopRunning(tasks[t].loop)
    /\ \A q \in 1..(t - 1) : tasks[q].loop = tasks[t].loop => tasks[q].pc # "ready"
    /\ IF tasks[t].image THEN TRUE ELSE vis = "ok" /\ dbo = "ok"
    /\ LET h1 == history \o UserEntry(t)
           final == FinalInput(t, vis)
           logged == IF tasks[t].image
                     THEN Append(patient_db, [turn |-> t, rec |-> LogRecord(vis)])
                     ELSE patient_db
           tk == [tasks EXCEPT ![t].vis = IF tasks[t].image THEN vis ELSE None,
                               ![t].final = final,
                               ![t].step = current_step_id,
                               ![t].signal = TurnSignal(active_protocol, current_step_id,
                                                        tasks[t].image)]
       IN  IF tasks[t].image /\ vis = "not_object"
           THEN /\ lp = "falsy"
                /\ history' = h1
                /\ patient_db' = patient_db
                /\ Raise(t, [tasks EXCEPT ![t].vis = vis])
           ELSE IF tasks[t].image /\ DbRaises(dbo)
           THEN /\ lp = "falsy"
                /\ history' = h1
                /\ patient_db' = patient_db
                /\ Raise(t, [tasks EXCEPT ![t].vis = vis])
           ELSE IF final = ""
           THEN /\ lp = "falsy"
                /\ history' = SpeakAndReturn(h1, t, "Awaiting input.")
                /\ patient_db' = logged
                /\ tasks' = [tk EXCEPT ![t].pc = "done", ![t].tts = TtsRequested(source)]
           ELSE IF room = NoRoom
           THEN /\ lp = "falsy"
                /\ history' = SpeakAndReturn(h1, t, Echo(final))
                /\ patient_db' = logged
                /\ tasks' = [tk EXCEPT ![t].pc = "done", ![t].publish = "no_room",
                                       ![t].tts = TtsRequested(source)]
           ELSE IF rooms[room] \in {"new", "failed"}
           THEN IF lp = "raises"
                THEN /\ history' = h1
                     /\ patient_db' = logged
                     /\ Raise(t, [tk EXCEPT ![t].publish = "raised"])
                ELSE /\ history' = SpeakAndReturn(h1, t, Echo(final))
                     /\ patient_db' = logged
                     /\ tasks' = [tk EXCEPT ![t].pc = "done",
                                            ![t].publish = "not_connected",
                                            ![t].tts = TtsRequested(source)]
           ELSE /\ lp = "falsy"
                /\ history' = h1
                /\ patient_db' = logged
                /\ tasks' = [tk EXCEPT ![t].pc = "publishing", ![t].via = room]
    /\ current_step_id' = NextStepId(active_protocol, current_step_id, tasks[t].text)
    /\ UNCHANGED <<bridgeVars, published, inbox, active_protocol, conversation_active,
                   pipelineVars>>

\* publish_data dropping a payload equal to one it has sent before.
Publish_Dedup(pub, payload) ==
    IF \E i \in 1..Len(pub) : pub[i] = payload THEN pub ELSE Append(pub, payload)

\* publish_data accepts the payload (line 288).
Publish(pub, payload) == Append(pub, payload)

\* publish_data returns or raises (publish_context, lines 286-291; the failure
\* is logged there), then the echo branch of process_input runs to its end
\* (lines 102-104).
TurnResume(t, ok) ==
    /\ t \in 1..Len(tasks)
    /\ tasks[t].pc = "publishing"
    /\ LoopRunning(tasks[t].loop)
    /\ ok => rooms[tasks[t].via] = "connected"
    /\ published' = IF ok THEN Publish(published, tasks[t].final) ELSE published
    /\ history' = SpeakAndReturn(history, t, Echo(tasks[t].final))
    /\ tasks' = [tasks EXCEPT ![t].pc = "done",
                              ![t].publish = IF ok THEN "published" ELSE "failed_logged",
                              ![t].tts = TtsRequested(source)]
    /\ UNCHANGED <<bridgeVars, patient_db, inbox, sessionVars, pipelineVars>>

----------------------------------------------------------------------------
Next ==
    \/ \E u \in Sessions : StartCall(u)
    \/ \E u \in Sessions : StopCall(u)
    \/ ClearLogs
    \/ \E s \in SupIds, ok \in BOOLEAN : SupGetToken(s, ok)
    \/ \E s \in SupIds, ok \in BOOLEAN : SupConnectReturns(s, ok)
    \/ \E s \in SupIds : SupLoopExit(s)
    \/ \E s \in SupIds : CloseFinish(s)
    \/ \E s \in SupIds : SupReturn(s)
    \/ \E r \in SupIds, kind \in {"audio", "video"} : TrackSubscribed(r, kind)
    \/ \E r \in SupIds : Disconnected(r)
    \/ \E r \in SupIds, pkt \in Packets : DataReceived(r, pkt)
    \/ \E r \in SupIds, ev \in Transcriptions : TranscriptionReceived(r, ev)
    \/ \E t \in 1..MaxTurns, lp \in ParticipantOutcomes : TurnStart(t, "ok", "ok", lp)
    \/ \E t \in 1..MaxTurns, ok \in BOOLEAN : TurnResume(t, ok)

Spec == Init /\ [][Next]_vars

\* The life cycle of the bridge alone: the button handlers, the threads and the
\* connection of their rooms.  No action of Next outside NextBridge writes a
\* variable that an action of NextBridge reads.
NextBridge ==
    \/ \E u \in Sessions : StartCall(u)
    \/ \E u \in Sessions : StopCall(u)
    \/ \E s \in SupIds, ok \in BOOLEAN : SupGetToken(s, ok)
    \/ \E s \in SupIds, ok \in BOOLEAN : SupConnectReturns(s, ok)
    \/ \E s \in SupIds : SupLoopExit(s)
    \/ \E s \in SupIds : CloseFinish(s)
    \/ \E s \in SupIds : SupReturn(s)
    \/ \E r \in SupIds : Disconnected(r)

SpecBridge == Init /\ [][NextBridge]_vars

----------------------------------------------------------------------------
\* process_input called directly and awaited, one call after the other, with
\* the bridge idle, connecting or connected.

\* Texts of a direct call; "" stands for no text (None or empty).
CallTexts == {"", "help"}

Finished(t) == tasks[t].pc \in {"done", "raised", "failed_logged"}

\* The bridge and the stores when the calls begin.
InitTurnBridge ==
    /\ api_key \in BOOLEAN
    /\ source = None
    /\ track = None
    /\ audio_stream_task = 0
    /\ audio = <<>>
    /\ tasks = <<>>
    /\ history = <<>>
    /\ patient_db = <<>>
    /\ published = <<>>
    /\ inbox = <<>>
    /\ conversation_active = FALSE
    /\ savant_protocols = NoFile
    /\ savant_metadata = NoFile
    /\ \/ /\ active = FALSE
          /\ call_active = [u \in Sessions |-> FALSE]
          /\ room = NoRoom
          /\ sup = [s \in SupIds |-> [pc |-> "unspawned", fetches |-> 0,
                                      connects |-> 0, logged |-> {}, result |-> None]]
          /\ rooms = [s \in SupIds |-> "none"]
       \/ /\ api_key
          /\ active = TRUE
          /\ call_active = [u \in Sessions |-> u = 1]
          /\ room = 1
          /\ \E st \in {"connecting", "loop"} :
               /\ sup = [s \in SupIds |->
                           IF s = 1
                           THEN [pc |-> st, fetches |-> 1, connects |-> 1,
                                 logged |-> {}, result |-> None]
                           ELSE [pc |-> "unspawned", fetches |-> 0, connects |-> 0,
                                 logged |-> {}, result |-> None]]
               /\ rooms = [s \in SupIds |->
                             IF s = 1 THEN (IF st = "loop" THEN "connected" ELSE "new")
                             ELSE "none"]

InitTurn ==
    /\ InitTurnBridge
    /\ active_protocol = None
    /\ current_step_id = None

\* await manager.process_input(text, image_bytes) by a caller outside the bridge.
CallProcessInput(text, image) ==
    /\ Len(tasks) < MaxCalls
    /\ \A t \in 1..Len(tasks) : Finished(t)
    /\ tasks' = Append(tasks, NewTask(NoRoom, text, image))
    /\ UNCHANGED <<bridgeVars, history, patient_db, published, inbox, sessionVars, pipelineVars>>

NextTurn ==
    \/ \E text \in CallTexts, image \in BOOLEAN : CallProcessInput(text, image)
    \/ \E t \in 1..MaxCalls, vis \in VisionOutcomes, dbo \in DbOutcomes,
          lp \in ParticipantOutcomes : TurnStart(t, vis, dbo, lp)
    \/ \E t \in 1..MaxCalls, ok \in BOOLEAN : TurnResume(t, ok)

SpecTurn == InitTurn /\ [][NextTurn]_vars

\* The bridge states InitTurn starts from, as predicates on the states of Spec.
TurnInitConnecting ==
    /\ room = 1 /\ sup[1].pc = "connecting" /\ rooms[1] = "new" /\ active
    /\ tasks = <<>> /\ audio = <<>>
TurnInitActive ==
    /\ room = 1 /\ sup[1].pc = "loop" /\ rooms[1] = "connected" /\ active
    /\ tasks = <<>> /\ audio = <<>>

----------------------------------------------------------------------------
\* The history under direct calls of the turn operations and the CLEAR LOGS
\* button.

Greeting == "Savant System Online. Monitoring vitals. Describe the emergency."

\* await manager.start_conversation() by a caller outside the bridge (turn 0):
\* at most one greeting is in the history.
StartConversation ==
    /\ \A t \in 1..Len(tasks) : Finished(t)
    /\ \A i \in 1..Len(history) : history[i].turn # 0
    /\ conversation_active' = TRUE
    /\ active_protocol' = None
    /\ current_step_id' = None
    /\ history' = SpeakAndReturn(history, 0, Greeting)
    /\ UNCHANGED <<bridgeVars, tasks, patient_db, published, inbox, pipelineVars>>

NextHistory ==
    \/ NextTurn
    \/ StartConversation
    \/ ClearLogs

SpecHistory == InitTurn /\ [][NextHistory]_vars

----------------------------------------------------------------------------
\* process_input called with a protocol session in place.  active_protocol and
\* current_step_id are plain attributes of the manager; the calls find them
\* unset, or set to a step of a protocol of get_placeholder_data.

ProtocolTexts == {"yes", "YES", "no", "help"}

InitProtocol ==
    /\ InitTurnBridge
    /\ \/ /\ active_protocol = None
          /\ current_step_id = None
       \/ /\ active_protocol \in DOMAIN PlaceholderTrees
          /\ current_step_id \in DOMAIN PlaceholderTrees[active_protocol]

NextProtocol ==
    \/ \E text \in ProtocolTexts, image \in BOOLEAN : CallProcessInput(text, image)
    \/ \E t \in 1..MaxCalls, lp \in ParticipantOutcomes : TurnStart(t, "ok", "ok", lp)
    \/ \E t \in 1..MaxCalls, ok \in BOOLEAN : TurnResume(t, ok)

SpecProtocol == InitProtocol /\ [][NextProtocol]_vars

----------------------------------------------------------------------------
\* The protocol pipeline: data_pipeline.main writes savant_protocols.json,
\* build_vector_store.build_and_save_index loads it into the metadata the
\* retrieval works from.

MaxChunks == 2

\* A step of an extracted tree.
Step(options, next) ==
    [voice |-> "...", visual_mode |-> FALSE, options |-> options, next |-> next]

\* The protocol of get_placeholder_data.
Hemorrhage ==
    [id |-> "hemorrhage", name |-> "Hemorrhage Control", tree |-> HemorrhageTree]

\* Protocols a chunk's extraction can hold: whatever the LLM answered.  A key
\* the answer does not carry is None.
ExtractedProtocols ==
    {Hemorrhage,
     [id |-> "cpr", name |-> "CPR",
      tree |-> [s1 |-> Step(<<>>, "s9")]],
     [id |-> "cpr", name |-> "CPR",
      tree |-> [s1 |-> Step(<<>>, "s2"), s2 |-> Step(<<>>, None)]],
     [id |-> "airway", name |-> "Airway",
      tree |-> [a1 |-> Step([yes |-> "a2", no |-> "a9"], None),
                a2 |-> Step(<<>>, None)]],
     [id |-> None, name |-> "Burns",
      tree |-> [b1 |-> Step(<<>>, None)]],
     [id |-> "shock", name |-> None,
      tree |-> [k1 |-> Step(<<>>, None)]]}

\* What one chunk contributes to all_protocols (lines 101-129): nothing when
\* the request or json.loads raises or the answer has no protocols list, the
\* list otherwise.
ChunkOutputs == {<<>>} \cup {<<p>> : p \in ExtractedProtocols}

RECURSIVE Concat(_)
Concat(chunks) ==
    IF chunks = <<>> THEN <<>> ELSE Head(chunks) \o Concat(Tail(chunks))

\* Lines 136-139: a dict keyed by id, filled in order; a protocol without an
\* id is left out, a repeated id keeps its place and takes the later value.
RECURSIVE Deduplicate(_, _)
Deduplicate(unique, all) ==
    IF all = <<>> THEN unique
    ELSE LET p == Head(all)
             at == {i \in 1..Len(unique) : unique[i].id = p.id}
         IN  IF p.id = None THEN Deduplicate(unique, Tail(all))
             ELSE IF at = {} THEN Deduplicate(Append(unique, p), Tail(all))
             ELSE Deduplicate([unique EXCEPT ![CHOOSE i \in at : TRUE] = p], Tail(all))

\* process_text_into_protocols: key is whether NIM_API_KEY is set, chunks the
\* extraction of each chunk.
ProcessTextIntoProtocols(key, chunks) ==
    IF ~key \/ Concat(chunks) = <<>> THEN <<Hemorrhage>>
    ELSE Deduplicate(<<>>, Concat(chunks))

\* data_pipeline.main: the result is written to savant_protocols.json.
RunPipeline(key, chunks) ==
    /\ savant_protocols' = File(ProcessTextIntoProtocols(key, chunks))
    /\ UNCHANGED <<bridgeVars, tasks, history, patient_db, published, inbox,
                   sessionVars, savant_metadata>>

\* build_and_save_index: every protocol of the file goes into the metadata;
\* a protocol without a name raises KeyError at line 23 and nothing is saved.
BuildAndSaveIndex ==
    /\ savant_protocols.written
    /\ savant_metadata' =
          IF \E i \in 1..Len(savant_protocols.protocols) :
                savant_protocols.protocols[i].name = None
          THEN savant_metadata
          ELSE File(savant_protocols.protocols)
    /\ UNCHANGED <<bridgeVars, tasks, history, patient_db, published, inbox,
                   sessionVars, savant_protocols>>

NextPipeline ==
    \/ \E key \in BOOLEAN, n \in 0..MaxChunks :
          \E chunks \in [1..n -> ChunkOutputs] : RunPipeline(key, chunks)
    \/ BuildAndSaveIndex

SpecPipeline == Init /\ [][NextPipeline]_vars

----------------------------------------------------------------------------
\* The event router alone: a connected room hands a fixed sequence of events
\* to _on_data_received and _on_transcription_received, and the callback
\* tasks they create run.

MaxEvents == 2     \* events the room delivers (SpecRouter)

DataEvent(topic, form, text, identity) ==
    [path |-> "data", topic |-> topic, form |-> form, text |-> text,
     identity |-> identity, segs |-> <<>>]

TranscriptionEvent(identity, segs) ==
    [path |-> "transcription", topic |-> "", form |-> "", text |-> "",
     identity |-> identity, segs |-> segs]

\* A transcription event with a segment whose text is not a string.
BadSegmentEvent(identity) ==
    [path |-> "transcription", topic |-> "", form |-> "bad_segment", text |-> "",
     identity |-> identity, segs |-> <<"help">>]

\* The events of the router model: raw and JSON payloads on the transcription
\* topic and on another topic, blank and undecodable payloads, senders with
\* and without the agent identity, and an event without a participant.
RouterEvents ==
    { DataEvent(TranscriptionTopic, "raw", "help", "user-1"),
      DataEvent(TranscriptionTopic, "json_text", "help", "agent-7"),
      DataEvent(TranscriptionTopic, "json_text", "", "user-1"),
      DataEvent("chat", "raw", "  ", "user-1"),
      DataEvent("chat", "raw", "help", "agent-7"),
      DataEvent("chat", "undecodable", "", "user-1"),
      DataEvent("chat", "json_text", "help", "user-1"),
      DataEvent(TranscriptionTopic, "undecodable", "", "user-1"),
      DataEvent(TranscriptionTopic, "json_padded", "help", "user-1"),
      DataEvent(TranscriptionTopic, "json_nonstr", "5", "user-1"),
      DataEvent(TranscriptionTopic, "json_bad", "help", "user-1"),
      DataEvent(TranscriptionTopic, "json_other", "help", "user-1"),
      BadSegmentEvent("user-1"),
      BadSegmentEvent("agent-7"),
      TranscriptionEvent("agent-7", <<"help">>),
      TranscriptionEvent("user-1", <<"help", "me">>),
      TranscriptionEvent("user-1", <<"", " ">>),
      TranscriptionEvent("user-1", <<>>),
      TranscriptionEvent(None, <<"help">>) }

\* The text the handler decodes from an event; None when decoding fails.
DecodedText(ev) ==
    IF ev.path = "data" THEN DataText(ev)
    ELSE IF JoinRaises(ev) THEN None
    ELSE FullText(ev)

\* What the handler of the event's path does with it.
Outcome(ev) ==
    IF ev.path = "data" THEN DataOutcome(ev) ELSE TranscriptionOutcome(ev)

\* The bridge is Active: thread 1 sleeps in its keep-alive loop, its room is
\* connected.
InitRouter ==
    /\ api_key = TRUE
    /\ active = TRUE
    /\ call_active = [u \in Sessions |-> u = 1]
    /\ room = 1
    /\ source = None
    /\ track = None
    /\ audio_stream_task = 0
    /\ sup = [s \in SupIds |->
                IF s = 1
                THEN [pc |-> "loop", fetches |-> 1, connects |-> 1,
                      logged |-> {}, result |-> None]
                ELSE [pc |-> "unspawned", fetches |-> 0, connects |-> 0,
                      logged |-> {}, result |-> None]]
    /\ rooms = [s \in SupIds |-> IF s = 1 THEN "connected" ELSE "none"]
    /\ audio = <<>>
    /\ tasks = <<>>
    /\ history = <<>>
    /\ patient_db = <<>>
    /\ published = <<>>
    /\ inbox \in [1..MaxEvents -> [ev : RouterEvents, st : {"pending"}]]
    /\ active_protocol = None
    /\ current_step_id = None
    /\ conversation_active = FALSE
    /\ savant_protocols = NoFile
    /\ savant_metadata = NoFile

\* Room r hands the next pending event to its handler.
Deliver(r, i) ==
    /\ i \in 1..Len(inbox)
    /\ inbox[i].st = "pending"
    /\ \A q \in 1..(i - 1) : inbox[q].st # "pending"
    /\ Dispatching(r)
    /\ IF inbox[i].ev.path = "data"
       THEN OnDataReceived(r, inbox[i].ev)
       ELSE OnTranscriptionReceived(r, inbox[i].ev)
    /\ inbox' = [inbox EXCEPT ![i].st = Outcome(inbox[i].ev)]

NextRouter ==
    \/ \E r \in SupIds, i \in 1..MaxEvents : Deliver(r, i)
    \/ \E t \in 1..MaxTurns, lp \in ParticipantOutcomes : TurnStart(t, "ok", "ok", lp)
    \/ \E t \in 1..MaxTurns, ok \in BOOLEAN : TurnResume(t, ok)

SpecRouter == InitRouter /\ [][NextRouter]_vars

----------------------------------------------------------------------------
\* Properties.

TaskIds == 1..Len(tasks)

\* A turn has started and has not completed.
InFlight(t) == tasks[t].pc = "publishing"

\* C1: at most one turn is in flight: while a turn is suspended at its await,
\* no other turn has started.
C1_OneTurnInFlight ==
    \A a, b \in TaskIds : (InFlight(a) /\ InFlight(b)) => a = b

\* C2: once stop has cleared the active flag while thread s awaits
\* room.connect, s does not go on to the keep-alive loop.
C2_StopWhileConnectingCloses ==
    [][\A s \in SupIds :
         (sup[s].pc = "connecting" /\ ~active) => sup'[s].pc # "loop"]_vars

\* C3: while a thread is connecting or in its keep-alive loop, start_call
\* spawns no further thread.
C3_StartIdempotent ==
    [][(\E s \in SupIds : sup[s].pc \in {"connecting", "loop"})
         => (\A q \in SupIds : sup'[q].pc = "spawned" => sup[q].pc = "spawned")]_vars

\* C4: once close has completed in thread s, no audio consumer and no callback
\* task created on its loop is still outstanding, and its room is released.
C4_NoBackgroundWorkAfterClose ==
    \A s \in SupIds :
        sup[s].pc \in {"closed", "done"} =>
            /\ \A a \in 1..Len(audio) : audio[a].loop = s => audio[a].st # "running"
            /\ \A t \in TaskIds : tasks[t].loop = s => Finished(t)
            /\ rooms[s] # "connected"

\* C5: the entries of one turn are adjacent in history: no entry of another
\* turn lies between the user entry and the assistant entry of a turn.
C5_TurnEntriesAdjacent ==
    \A i, j \in 1..Len(history) :
        (i < j /\ history[i].turn = history[j].turn) =>
            \A k \in i..j : history[k].turn = history[i].turn

\* C6: no call of process_input ends with an exception, and every completed
\* call has appended its assistant entry.
C6_TurnAlwaysResponds ==
    \A t \in TaskIds :
        /\ tasks[t].pc # "raised"
        /\ Finished(t) =>
             \E i \in 1..Len(history) :
                 history[i].turn = t /\ history[i].role = "assistant"

\* A packet that _process_text_message accepts.
AcceptedPacket ==
    [topic |-> TranscriptionTopic, form |-> "raw", text |-> "help", identity |-> "user-1"]

\* C7: an exception of the callback never leaves its task (it is caught and
\* logged), and every room that dispatches still hands an accepted packet to
\* the callback.
C7_CallbackFailureContained ==
    /\ \A t \in TaskIds : tasks[t].loop # NoRoom => tasks[t].pc # "raised"
    /\ \A r \in SupIds :
          (Dispatching(r) /\ Len(tasks) < MaxTurns) => ENABLED DataReceived(r, AcceptedPacket)

\* C7 witness: the callback of one utterance raised and was logged, and the
\* callback of a later utterance on the same loop ran to its end.
C7_Witness ==
    \E a, b \in TaskIds :
        /\ a < b
        /\ tasks[a].loop = tasks[b].loop
        /\ tasks[a].pc = "failed_logged"
        /\ tasks[b].pc = "done"

C9_TokenFetchRetried ==
    \A s \in SupIds :
        (sup[s].pc = "done" /\ "token_failed" \in sup[s].logged) =>
            (sup[s].fetches > 1 /\ sup[s].result = "SessionUnavailable")

\* C10: a thread in its keep-alive loop whose room dropped while the active
\* flag is set does not close; it stays up to reconnect.
C10_DropKeepsSession ==
    [][\A s \in SupIds :
         (sup[s].pc = "loop" /\ room = s /\ rooms[s] = "disconnected" /\ active)
             => sup'[s].pc \notin {"closing", "closed", "done"}]_vars

\* C11: a thread whose token fetch succeeded and whose connect call returns
\* successfully goes on to the keep-alive loop (room connected, supervisor
\* loop running).
C11_ConnectReachesActive ==
    [][\A s \in SupIds :
         (sup[s].pc = "connecting" /\ rooms[s] = "new" /\ rooms'[s] = "connected")
             => sup'[s].pc = "loop"]_vars

\* C12: no event whose participant identity contains "agent-" becomes a
\* callback task, on the data-packet path and on the transcription path.
C12_AgentEventsDiscarded ==
    \A i \in 1..Len(inbox) :
        inbox[i].ev.identity \in AgentIdentities => inbox[i].st # "task"

\* The callback tasks are exactly the events routed to the callback.
TasksMatchInbox ==
    Len(tasks) = Cardinality({i \in 1..Len(inbox) : inbox[i].st = "task"})

\* C13: an event whose decoded text is empty or only whitespace is skipped in
\* silence on both paths: no callback task is created for it and no error or
\* warning is raised or logged; the callback tasks are those of the other
\* events.
C13_BlankTextSkipped ==
    /\ \A i \in 1..Len(inbox) :
          (inbox[i].st # "pending" /\ DecodedText(inbox[i].ev) # None
             /\ IsBlank(DecodedText(inbox[i].ev))) => inbox[i].st = "skipped"
    /\ TasksMatchInbox

\* C13 witness: a blank data packet and a blank transcription event have both
\* been handled.
C13_Witness ==
    \E i, j \in 1..Len(inbox) :
        /\ inbox[i].ev.path = "data" /\ inbox[j].ev.path = "transcription"
        /\ inbox[i].st # "pending" /\ inbox[j].st # "pending"
        /\ inbox[j].ev.identity \notin AgentIdentities
        /\ IsBlank(DecodedText(inbox[i].ev)) /\ IsBlank(DecodedText(inbox[j].ev))

\* C14: when publish_context runs without a connected local participant it
\* does not raise, and what it returns differs from what a successful publish
\* returns.
C14_PublishFailureSignalled ==
    \A t \in TaskIds :
        tasks[t].publish \in {"not_connected", "raised"} =>
            /\ tasks[t].publish # "raised"
            /\ PublishReturn(tasks[t].publish) # PublishReturn("published")

\* The response of a turn is in the history.
Responded(t) ==
    \E i \in 1..Len(history) :
        history[i] = Entry("assistant", Echo(tasks[t].final), t)

\* C15: a turn whose publish failed, or that found the bridge not connected,
\* completes with its response appended to the history.
C15_PublishFailureTurnProceeds ==
    \A t \in TaskIds :
        tasks[t].publish \in {"no_room", "not_connected", "raised", "failed_logged"} =>
            (tasks[t].pc = "done" /\ Responded(t))

\* C16: every completed turn has requested synthesized audio for its response.
C16_TtsRequestedEveryTurn ==
    \A t \in TaskIds : tasks[t].pc = "done" => tasks[t].tts

\* The records the logging collaborator holds for turn t.
RecordsOf(t) == {i \in 1..Len(patient_db) : patient_db[i].turn = t}

C18_VisionFallbackDefined ==
    \A t \in TaskIds :
        (tasks[t].image /\ tasks[t].vis = "api_error" /\ tasks[t].pc \in {"publishing", "done"}) =>
            /\ AnalyzeInjury("api_error") =
                  [injury |-> "Unknown", severity |-> "Unknown",
                   visual_overlay |-> "Analysis Failed"]
            /\ \A i \in RecordsOf(t) :
                  /\ patient_db[i].rec.injury_detected = "Unknown"
                  /\ patient_db[i].rec.actions_taken = "Visual Analysis: Unknown"
            /\ tasks[t].final =
                  tasks[t].text \o " [Visual Info: Found Unknown, Severity: Unknown]"

\* Threads that have been spawned and have not returned.
AliveThreads == {s \in SupIds : sup[s].pc \in {"spawned", "connecting", "loop", "closing"}}

\* C19: at most one connect_and_stream thread is alive and at most one room
\* is connected.
C19_OneSession ==
    /\ Cardinality(AliveThreads) <= 1
    /\ Cardinality({r \in SupIds : rooms[r] = "connected"}) <= 1

IsPrefix(a, b) == Len(a) <= Len(b) /\ SubSeq(b, 1, Len(a)) = a

\* C20: every step keeps the history as a prefix of the new history, except
\* the clear command, which empties it and touches nothing else.
C20_HistoryAppendOnly ==
    [][\/ IsPrefix(history, history')
       \/ (history # <<>> /\ history' = <<>> /\ UNCHANGED <<bridgeVars, tasks, patient_db, published>>)]_vars

\* C20 witness: turn operations have appended to a history that already held
\* entries of another turn operation.
C20_Witness ==
    /\ Len(history) >= 3
    /\ history[1].turn # history[Len(history)].turn

\* A step of a ConversationManager operation: a call of process_input starts,
\* resumes or ends.
ManagerStep == \E t \in TaskIds : tasks'[t].pc # tasks[t].pc

\* C21: the history and the protocol-session fields change only in steps of
\* the ConversationManager's own operations.
C21_OnlyManagerWrites ==
    [][(history' # history \/ active_protocol' # active_protocol
          \/ current_step_id' # current_step_id) => ManagerStep]_vars

\* The completed turns whose combined input is f, and those of them whose
\* publish succeeded.
TurnsOf(f) == {t \in TaskIds : tasks[t].pc = "done" /\ tasks[t].final = f}
PublishedTurnsOf(f) == {t \in TurnsOf(f) : tasks[t].publish = "published"}

\* C22: turns with the same content are not merged: every completed turn with
\* combined input f has its own response entry in the history, every turn with
\* a text its own user entry, and every successful publish of f its own
\* payload.
C22_NoDeduplication ==
    \A f \in {tasks[t].final : t \in TaskIds} \ {""} :
        /\ Cardinality({i \in 1..Len(history) :
                          history[i].role = "assistant" /\ history[i].content = Echo(f)})
             = Cardinality(TurnsOf(f))
        /\ Cardinality({i \in 1..Len(published) : published[i] = f})
             = Cardinality(PublishedTurnsOf(f))
        /\ \A t \in TurnsOf(f) :
              tasks[t].text # "" =>
                  \E i \in 1..Len(history) : history[i] = Entry("user", tasks[t].text, t)

\* C22 witness: two consecutive turns with the same text have completed and
\* both were published.
C22_Witness ==
    \E a, b \in TaskIds :
        /\ b = a + 1
        /\ tasks[a].text = tasks[b].text /\ tasks[a].image = tasks[b].image
        /\ tasks[a].final = tasks[b].final /\ tasks[a].final # ""
        /\ tasks[a].publish = "published" /\ tasks[b].publish = "published"

\* The latest turn has completed with a protocol session in place.
LatestTurnInProtocol ==
    /\ Len(tasks) > 0
    /\ tasks[Len(tasks)].pc = "done"
    /\ active_protocol # None
    /\ tasks[Len(tasks)].step # None

\* An affirmative utterance, in any letter case.
IsYes(text) == text \in {"yes", "Yes", "YES"}

IsEdge(protocol, a, b) ==
    /\ protocol # None
    /\ a # None
    /\ b \in StepTargets(PlaceholderTrees[protocol][a])

Intact(p) ==
    \A id \in DOMAIN p.tree : StepTargets(p.tree[id]) \subseteq DOMAIN p.tree

\* C25: every protocol in the written protocols file and in the saved
\* metadata is referentially intact.
C25_LoadedProtocolsIntact ==
    /\ \A i \in 1..Len(savant_protocols.protocols) : Intact(savant_protocols.protocols[i])
    /\ \A i \in 1..Len(savant_metadata.protocols) : Intact(savant_metadata.protocols[i])

\* The callback task created for event i of the inbox.
TaskOf(i) == Cardinality({j \in 1..i : inbox[j].st = "task"})

\* The text the payload of a data packet stands for: the text field of a JSON
\* object that has one, on the transcription topic; the decoded payload
\* otherwise.
ExpectedDataText(ev) ==
    IF ev.topic = TranscriptionTopic
          /\ ev.form \in {"json_text", "json_padded", "json_nonstr"}
    THEN ev.text
    ELSE RawText(ev)

\* C27: the callback task of a data packet carries the text field of the
\* payload when the packet is on the transcription topic and the payload is a
\* JSON object with a text field, and the decoded payload otherwise.
C27_DeliveredText ==
    \A i \in 1..Len(inbox) :
        (inbox[i].ev.path = "data" /\ inbox[i].st = "task")
            => tasks[TaskOf(i)].text = ExpectedDataText(inbox[i].ev)

\* The handler's decoding of the event fails: the payload of a data packet is
\* not UTF-8, or a segment text of a transcription event the handler joins
\* is no string.
DecodeFails(ev) ==
    IF ev.path = "data" THEN ev.form = "undecodable"
    ELSE ev.form = "bad_segment" /\ ev.identity \notin AgentIdentities

\* C28: a handled event whose decoding fails was logged as a warning, the
\* callback tasks are those of the other events, and the event after it can
\* still be handled.
C28_DecodeFailureWarned ==
    /\ \A i \in 1..Len(inbox) :
          (inbox[i].st # "pending" /\ DecodeFails(inbox[i].ev))
             => /\ inbox[i].st = "warned"
                /\ (i < Len(inbox) /\ inbox[i + 1].st = "pending" /\ Len(tasks) < MaxTurns)
                      => ENABLED Deliver(1, i + 1)
    /\ Len(tasks) = Cardinality({i \in 1..Len(inbox) :
                                   inbox[i].st = "task" /\ ~DecodeFails(inbox[i].ev)})

\* C28 witness: an event whose decoding failed was handled and a later event
\* became a callback task.
C28_Witness ==
    \E i, j \in 1..Len(inbox) :
        /\ i < j
        /\ DecodeFails(inbox[i].ev) /\ inbox[i].st = "warned"
        /\ inbox[j].st = "task"

\* C29: the callback task of a transcription event carries the segment texts
\* in their order with one space between neighbours, and the event has that
\* one task only.
C29_SegmentsJoined ==
    /\ \A i \in 1..Len(inbox) :
          (inbox[i].ev.path = "transcription" /\ inbox[i].st = "task")
             => LET segs == inbox[i].ev.segs
                    text == tasks[TaskOf(i)].text
                IN  /\ Len(segs) = 1 => text = segs[1]
                    /\ segs = <<"help", "me">> => text = "help me"
    /\ Len(tasks) <= Cardinality({i \in 1..Len(inbox) : inbox[i].st = "task"})

\* C29 witness: a transcription event of two segments has become a callback
\* task.
C29_Witness ==
    \E i \in 1..Len(inbox) :
        /\ inbox[i].ev.path = "transcription"
        /\ Len(inbox[i].ev.segs) = 2
        /\ inbox[i].st = "task"
        /\ Len(tasks) >= TaskOf(i)

\* C30: the step that handles a data packet creates at most one callback
\* task.
C30_OneCallbackPerPacket ==
    [][(\E i \in 1..Len(inbox) :
           /\ inbox[i].ev.path = "data"
           /\ inbox[i].st = "pending" /\ inbox'[i].st # "pending")
         => Len(tasks') <= Len(tasks) + 1]_vars

\* C30 witness: a transcription-topic packet whose transcription branch
\* raised part-way and one whose branch ran to its end have both been
\* handled, with one callback task each.
C30_Witness ==
    \E i, j \in 1..Len(inbox) :
        /\ inbox[i].ev.topic = TranscriptionTopic
        /\ inbox[i].ev.form \in {"json_bad", "json_nonstr"}
        /\ inbox[i].st = "task"
        /\ inbox[j].ev.topic = TranscriptionTopic
        /\ inbox[j].ev.form = "json_text"
        /\ inbox[j].st = "task"
        /\ Len(tasks) = 2

\* C31: in the step in which connect_and_stream returns in a thread, the
\* bridge holds no connection: room, source and track are all None.
C31_ReturnReleasesConnection ==
    [][\A s \in SupIds :
         (sup[s].pc # "done" /\ sup'[s].pc = "done")
             => (room' = NoRoom /\ source' = None /\ track' = None)]_vars

\* C32: the history holds no response of a turn that started before the last
\* clear: every assistant entry of a turn with a text comes after the user
\* entry the same turn appended when it started.
C32_ClearedTurnsStayOut ==
    \A i \in 1..Len(history) :
        (/\ history[i].role = "assistant"
         /\ history[i].turn \in TaskIds
         /\ tasks[history[i].turn].text # "")
            => \E j \in 1..(i - 1) :
                  history[j] = Entry("user", tasks[history[i].turn].text, history[i].turn)

EntriesOf(t, role) ==
    {i \in 1..Len(history) : history[i].turn = t /\ history[i].role = role}

\* C34: a completed call with neither text nor image has the single entry
\* "Awaiting input." of the assistant in the history, no user entry, no
\* publish and no patient record; a call with a text or an image that has
\* started has exactly one user entry, ahead of its assistant entry.
C34_EmptyInputAwaits ==
    \A t \in TaskIds :
        IF tasks[t].text = "" /\ ~tasks[t].image
        THEN tasks[t].pc = "done" =>
                /\ EntriesOf(t, "user") = {}
                /\ Cardinality(EntriesOf(t, "assistant")) = 1
                /\ \A i \in EntriesOf(t, "assistant") : history[i].content = "Awaiting input."
                /\ tasks[t].publish = None
                /\ \A i \in 1..Len(published) : published[i] # ""
                /\ RecordsOf(t) = {}
        ELSE tasks[t].pc # "ready" =>
                /\ Cardinality(EntriesOf(t, "user")) = 1
                /\ \A i \in EntriesOf(t, "user"), j \in EntriesOf(t, "assistant") : i < j

\* C34 witness: a call with neither text nor image and a call with both have
\* completed.
C34_Witness ==
    \E a, b \in TaskIds :
        /\ tasks[a].pc = "done" /\ tasks[a].text = "" /\ ~tasks[a].image
        /\ tasks[b].pc = "done" /\ tasks[b].text # "" /\ tasks[b].image

====
